---- MODULE Spec2Model ----
(***************************************************************************)
(* Model of the PR comment aggregator (scripts/fetch-pr-comments.js) and   *)
(* of the reply dispatcher (reply-pr-comments.js).  The two programs share *)
(* no state: specification Spec runs the aggregator and leaves the         *)
(* dispatcher idle, specification SpecDispatch runs the dispatcher.        *)
(*                                                                         *)
(* main() reads the PR overview, the reviews, the inline review comments   *)
(* and the issue comments, then buildHierarchy() merges them into one      *)
(* result: per-review comment maps, the orphan map, the flat allComments   *)
(* list and the statistics.  Every loop of buildHierarchy is one action.   *)
(*                                                                         *)
(* Representation.  A remote id is a positive integer; an absent or null   *)
(* in_reply_to_id / pull_request_review_id is 0 (both are falsy in the     *)
(* code's tests).  A timestamp is the instant `new Date(...)` yields for   *)
(* it.  A body is null or a sequence of characters.  A JavaScript object   *)
(* keyed by ids is a function (or, when only its keys matter, a set), and  *)
(* Object.entries of such an object lists integer keys in ascending order. *)
(***************************************************************************)
EXTENDS Integers, Sequences, FiniteSets, TLC

\* Bounds of the model.
MaxItems == 3          \* items fetched in one run, over the three collections
MaxCommentId == 3      \* inline comment ids are 1..MaxCommentId
MaxReviewId == 2       \* review ids are 1..MaxReviewId
MaxIssueId == 2        \* issue comment ids are 1..MaxIssueId
MaxTime == 3           \* timestamps are 1..MaxTime
MaxBodyLen == 2        \* review bodies have at most MaxBodyLen characters
MaxReplies == 2        \* the dispatcher's input has at most MaxReplies elements
MaxIdNum == 1          \* numerals in request identifiers are 0..MaxIdNum
MaxIdTokens == 2       \* identifier strings have at most MaxIdTokens tokens
MaxReplyBodyLen == 1   \* reply bodies have at most MaxReplyBodyLen characters
MaxPacedReplies == 3   \* input length in the runs that vary the options
MaxEscapeLen == 3      \* body length in the runs that vary the body's characters

VARIABLES
  pc,              \* position of main()
  reviews,         \* fetched reviews (raw)
  reviewComments,  \* fetched inline review comments (raw)
  issueComments,   \* fetched issue comments (raw)
  allReviewComments, \* buildHierarchy: index of inline comments by id
  topLevelComments,  \* buildHierarchy: ids of the comments that are not replies
  result,          \* buildHierarchy: the result under construction
  stdout           \* what main() has written to the primary output

\* State of the reply dispatcher
VARIABLES
  dpc,             \* position of the dispatcher's main()
  args,            \* parseArgs result
  env,             \* what the gh lookups of repository and PR number answer
  input,           \* content of the replies file or of stdin
  prNumber,        \* main: prNumber
  repliesArr,      \* main: the array replies
  loopI,           \* main: the loop index i (1-based)
  results,         \* main: results
  pending,         \* the gh command execSync is running, if any
  log,             \* remote writes, delays and stderr marks, in order
  exitCode,        \* process exit status
  dstdout          \* what the dispatcher has written to the primary output

aggVars == <<pc, reviews, reviewComments, issueComments, allReviewComments,
             topLevelComments, result, stdout>>

dispVars == <<dpc, args, env, input, prNumber, repliesArr, loopI, results, pending,
              log, exitCode, dstdout>>

vars == <<aggVars, dispVars>>

----------------------------------------------------------------------------
\* Helpers

Min(S) == CHOOSE x \in S : \A y \in S : x <= y

\* Integer keys of a JavaScript object are enumerated in ascending order.
RECURSIVE KeysInOrder(_)
KeysInOrder(S) ==
  IF S = {} THEN <<>> ELSE <<Min(S)>> \o KeysInOrder(S \ {Min(S)})

\* obj[key] = value on an object modelled as a function.
Put(obj, key, value) ==
  [k \in DOMAIN obj \cup {key} |-> IF k = key THEN value ELSE obj[k]]

EmptyObject == [k \in {} |-> 0]

----------------------------------------------------------------------------
\* Input domains

Chars == {" ", "a"}

IsWhitespace(ch) == ch = " "

NullBody == [isNull |-> TRUE, text |-> <<>>]

Text(t) == [isNull |-> FALSE, text |-> t]

Bodies ==
  {NullBody} \cup {Text(t) : t \in UNION {[1..n -> Chars] : n \in 0..MaxBodyLen}}

CommentIds == 1..MaxCommentId
ReviewIds == 1..MaxReviewId
IssueIds == 1..MaxIssueId
Times == 1..MaxTime

ReviewAttrs == [body : Bodies, submitted_at : Times]

CommentAttrs ==
  [in_reply_to_id : 0..MaxCommentId,
   pull_request_review_id : 0..MaxReviewId,
   created_at : Times]

IssueAttrs == [created_at : Times]

RawReview(id, a) ==
  [id |-> id, body |-> a.body, submitted_at |-> a.submitted_at]

RawComment(id, a) ==
  [id |-> id, in_reply_to_id |-> a.in_reply_to_id,
   pull_request_review_id |-> a.pull_request_review_id,
   created_at |-> a.created_at]

RawIssueComment(id, a) == [id |-> id, created_at |-> a.created_at]

----------------------------------------------------------------------------
\* String.prototype.trim and the hasBody test

RECURSIVE TrimStart(_)
TrimStart(s) ==
  IF s # <<>> /\ IsWhitespace(Head(s)) THEN TrimStart(Tail(s)) ELSE s

RECURSIVE TrimEnd(_)
TrimEnd(s) ==
  IF s # <<>> /\ IsWhitespace(s[Len(s)])
  THEN TrimEnd(SubSeq(s, 1, Len(s) - 1))
  ELSE s

Trim(s) == TrimEnd(TrimStart(s))

\* Mutant of HasBody: the body is tested without trimming it.
HasBodyUntrimmed(review) ==
  /\ ~review.body.isNull
  /\ review.body.text # <<>>

\* review.body && review.body.trim().length > 0
HasBody(review) ==
  /\ ~review.body.isNull
  /\ review.body.text # <<>>
  /\ Len(Trim(review.body.text)) > 0

----------------------------------------------------------------------------
\* Array.prototype.sort with the comparator of buildHierarchy

\* Mutant of CompareCreatedAt: the operands are swapped.
CompareCreatedAtSwapped(a, b) == b.createdAt - a.createdAt

\* (a, b) => new Date(a.createdAt) - new Date(b.createdAt)
CompareCreatedAt(a, b) == a.createdAt - b.createdAt

\* Insert x behind every element that does not compare greater than it.
RECURSIVE InsertSorted(_, _)
InsertSorted(sorted, x) ==
  IF sorted = <<>> THEN <<x>>
  ELSE IF CompareCreatedAt(sorted[Len(sorted)], x) <= 0
       THEN Append(sorted, x)
       ELSE Append(InsertSorted(SubSeq(sorted, 1, Len(sorted) - 1), x),
                   sorted[Len(sorted)])

\* The sort is stable (ECMAScript 2019): a stable insertion sort gives the
\* same result as any stable sort under a consistent comparator.
RECURSIVE SortByCreatedAt(_)
SortByCreatedAt(s) ==
  IF s = <<>> THEN <<>>
  ELSE InsertSorted(SortByCreatedAt(SubSeq(s, 1, Len(s) - 1)), s[Len(s)])

----------------------------------------------------------------------------
\* Flat list entries

\* `review-body-${review.id}` against a native numeric id
SyntheticId(n) == [prefix |-> "review-body-", num |-> n]

NativeId(n) == [prefix |-> "", num |-> n]

\* gh api repos/{repo}/pulls/{pr}/comments/{id}/replies
ThreadReplyApi(id) == [endpoint |-> "pulls/comments/replies", commentId |-> id]

\* gh api repos/{repo}/issues/{pr}/comments
ConversationApi == [endpoint |-> "issues/comments", commentId |-> 0]

\* a review-body entry carries replyMethod only
NoReplyApi == [endpoint |-> "none", commentId |-> 0]

ReviewBodyEntry(review) ==
  [id |-> SyntheticId(review.id), type |-> "review-body",
   reviewId |-> review.id, createdAt |-> review.submitted_at,
   isReply |-> FALSE, parentId |-> 0, replyApi |-> NoReplyApi]

InlineEntry(comment) ==
  [id |-> NativeId(comment.id), type |-> "inline",
   reviewId |-> comment.pullRequestReviewId, createdAt |-> comment.createdAt,
   isReply |-> FALSE, parentId |-> 0, replyApi |-> ThreadReplyApi(comment.id)]

InlineReplyEntry(comment, reply) ==
  [id |-> NativeId(reply.id), type |-> "inline-reply",
   reviewId |-> reply.pullRequestReviewId, createdAt |-> reply.createdAt,
   isReply |-> TRUE, parentId |-> comment.id,
   replyApi |-> ThreadReplyApi(comment.id)]

ConversationEntry(comment) ==
  [id |-> NativeId(comment.id), type |-> "conversation",
   reviewId |-> 0, createdAt |-> comment.created_at,
   isReply |-> FALSE, parentId |-> 0, replyApi |-> ConversationApi]

EmptyResult ==
  [reviews |-> EmptyObject,
   issueComments |-> {},
   orphanedComments |-> {},
   allComments |-> <<>>,
   stats |-> [totalReviews |-> 0, totalReviewBodies |-> 0,
              totalReviewComments |-> 0, totalIssueComments |-> 0,
              totalReplies |-> 0, totalAllComments |-> 0]]

----------------------------------------------------------------------------
\* The loops of buildHierarchy

IndexedComment(comment) ==
  [id |-> comment.id, createdAt |-> comment.created_at,
   inReplyToId |-> comment.in_reply_to_id,
   pullRequestReviewId |-> comment.pull_request_review_id,
   replies |-> {}, isReply |-> FALSE]

\* Mutant of IndexComments: every comment is taken as top-level.
RECURSIVE IndexCommentsAllTopLevel(_, _, _)
IndexCommentsAllTopLevel(cs, index, top) ==
  IF cs = <<>> THEN [index |-> index, top |-> top]
  ELSE LET comment == Head(cs)
       IN IndexCommentsAllTopLevel(Tail(cs),
                        Put(index, comment.id, IndexedComment(comment)),
                        Append(top, comment.id))

\* First pass: index all review comments
RECURSIVE IndexComments(_, _, _)
IndexComments(cs, index, top) ==
  IF cs = <<>> THEN [index |-> index, top |-> top]
  ELSE LET comment == Head(cs)
       IN IndexComments(Tail(cs),
                        Put(index, comment.id, IndexedComment(comment)),
                        IF comment.in_reply_to_id = 0
                        THEN Append(top, comment.id) ELSE top)

\* Second pass: build reply chains
RECURSIVE BuildReplyChains(_, _, _)
BuildReplyChains(cs, index, replies) ==
  IF cs = <<>> THEN [index |-> index, totalReplies |-> replies]
  ELSE LET comment == Head(cs)
           parentId == comment.in_reply_to_id
       IN IF parentId # 0 /\ parentId \in DOMAIN index
          THEN LET withChild ==
                     [index EXCEPT ![parentId].replies = @ \cup {comment.id}]
                   marked == [withChild EXCEPT ![comment.id].isReply = TRUE]
               IN BuildReplyChains(Tail(cs), marked, replies + 1)
          ELSE BuildReplyChains(Tail(cs), index, replies)

\* Build reviews structure
RECURSIVE BuildReviews(_, _)
BuildReviews(rs, res) ==
  IF rs = <<>> THEN res
  ELSE LET review == Head(rs)
           stored == [id |-> review.id, body |-> review.body,
                      submittedAt |-> review.submitted_at, comments |-> {}]
           counted ==
             [res EXCEPT !.reviews = Put(@, review.id, stored),
                         !.stats.totalReviews = @ + 1]
       IN BuildReviews(Tail(rs),
            IF HasBody(review)
            THEN [counted EXCEPT
                    !.stats.totalReviewBodies = @ + 1,
                    !.allComments = Append(@, ReviewBodyEntry(review))]
            ELSE counted)

\* Add replies to flat list
RECURSIVE ReplyEntries(_, _, _)
ReplyEntries(comment, replyIds, index) ==
  IF replyIds = <<>> THEN <<>>
  ELSE <<InlineReplyEntry(comment, index[Head(replyIds)])>>
         \o ReplyEntries(comment, Tail(replyIds), index)

\* Mutant of AssignComments: the owning review is looked up by truthiness of
\* the id alone, so a comment of an unfetched review gets no home.
RECURSIVE AssignCommentsNoLookup(_, _, _)
AssignCommentsNoLookup(top, index, res) ==
  IF top = <<>> THEN res
  ELSE LET commentId == Head(top)
           comment == index[commentId]
           reviewId == comment.pullRequestReviewId
           placed ==
             IF reviewId # 0
             THEN IF reviewId \in DOMAIN res.reviews
                  THEN [res EXCEPT !.reviews[reviewId].comments = @ \cup {commentId}]
                  ELSE res
             ELSE [res EXCEPT !.orphanedComments = @ \cup {commentId}]
       IN AssignCommentsNoLookup(Tail(top), index,
            [placed EXCEPT
               !.stats.totalReviewComments = @ + 1,
               !.allComments =
                  @ \o <<InlineEntry(comment)>>
                    \o ReplyEntries(comment, KeysInOrder(comment.replies), index)])

\* Assign comments to reviews and build allComments
RECURSIVE AssignComments(_, _, _)
AssignComments(top, index, res) ==
  IF top = <<>> THEN res
  ELSE LET commentId == Head(top)
           comment == index[commentId]
           reviewId == comment.pullRequestReviewId
           placed ==
             IF reviewId # 0 /\ reviewId \in DOMAIN res.reviews
             THEN [res EXCEPT !.reviews[reviewId].comments = @ \cup {commentId}]
             ELSE [res EXCEPT !.orphanedComments = @ \cup {commentId}]
       IN AssignComments(Tail(top), index,
            [placed EXCEPT
               !.stats.totalReviewComments = @ + 1,
               !.allComments =
                  @ \o <<InlineEntry(comment)>>
                    \o ReplyEntries(comment, KeysInOrder(comment.replies), index)])

\* Add issue comments, without listing them in allComments
RECURSIVE AddIssueCommentsUnlisted(_, _)
AddIssueCommentsUnlisted(cs, res) ==
  IF cs = <<>> THEN res
  ELSE LET comment == Head(cs)
       IN AddIssueCommentsUnlisted(Tail(cs),
            [res EXCEPT
               !.issueComments = @ \cup {comment.id},
               !.stats.totalIssueComments = @ + 1])

\* Add issue comments (conversation-style)
RECURSIVE AddIssueComments(_, _)
AddIssueComments(cs, res) ==
  IF cs = <<>> THEN res
  ELSE LET comment == Head(cs)
       IN AddIssueComments(Tail(cs),
            [res EXCEPT
               !.issueComments = @ \cup {comment.id},
               !.stats.totalIssueComments = @ + 1,
               !.allComments = Append(@, ConversationEntry(comment))])

\* Sort allComments by createdAt, then count them
SortAndCount(res) ==
  LET sorted == SortByCreatedAt(res.allComments)
  IN [res EXCEPT !.allComments = sorted,
                 !.stats.totalAllComments = Len(sorted)]

----------------------------------------------------------------------------
\* Reply dispatcher (reply-pr-comments.js): values of the input

\* An identifier string is a sequence of tokens: the marker 'review-body-'
\* as one token, and decimal numerals
ReviewBodyMarker == "review-body-"

IdTokens == {ReviewBodyMarker} \cup {ToString(n) : n \in 1..MaxIdNum}

IdStrings ==
  UNION {[1..n -> IdTokens] : n \in 0..MaxIdTokens}

\* reply.id: absent, a number or a string
NoId == [t |-> "undefined", n |-> 0, s |-> <<>>]

NumberId(n) == [t |-> "number", n |-> n, s |-> <<>>]

StringId(s) == [t |-> "string", n |-> 0, s |-> s]

ReplyIds ==
  {NoId} \cup {NumberId(n) : n \in 0..MaxIdNum}
         \cup {StringId(s) : s \in IdStrings}

\* reply.body: absent, a string, or a truthy value that is not a string
ShellChars == {"a", "'"}

NoReplyBody == [t |-> "undefined", s |-> <<>>]

StringBody(s) == [t |-> "string", s |-> s]

NonStringBody == [t |-> "nonstring", s |-> <<>>]

ReplyBodies ==
  {NoReplyBody, NonStringBody}
    \cup {StringBody(s) : s \in UNION {[1..n -> ShellChars] : n \in 0..MaxReplyBodyLen}}

\* reply.type: absent, one of the four kinds, or another string
NoType == "<undefined>"

ReplyTypes ==
  {NoType, "inline", "inline-reply", "conversation", "review-body", "other"}

\* An element of the input array: an object, null, or another JSON value
\* (number, string, boolean), which has no properties
NullElement ==
  [kind |-> "null", id |-> NoId, body |-> NoReplyBody, type |-> NoType]

PrimitiveElement ==
  [kind |-> "primitive", id |-> NoId, body |-> NoReplyBody, type |-> NoType]

ObjectElements ==
  [kind : {"object"}, id : ReplyIds, body : ReplyBodies, type : ReplyTypes]

Elements == ObjectElements \cup {NullElement, PrimitiveElement}

\* Validation that looks at the body only
IdTruthyUnchecked(id) == TRUE

\* JavaScript truthiness of reply.id, reply.body and reply.type
IdTruthy(id) ==
  \/ id.t = "number" /\ id.n # 0
  \/ id.t = "string" /\ id.s # <<>>

BodyTruthy(body) ==
  \/ body.t = "nonstring"
  \/ body.t = "string" /\ body.s # <<>>

TypeTruthy(type) == type # NoType

\* String(id) and `${id}`
IdToString(id) ==
  IF id.t = "number" THEN <<ToString(id.n)>>
  ELSE IF id.t = "string" THEN id.s
  ELSE <<"undefined">>

\* str.replace('review-body-', ''): the first occurrence, wherever it is
RECURSIVE ReplaceFirstMarker(_)
ReplaceFirstMarker(s) ==
  IF s = <<>> THEN <<>>
  ELSE IF Head(s) = ReviewBodyMarker THEN Tail(s)
  ELSE <<Head(s)>> \o ReplaceFirstMarker(Tail(s))

\* str.replace(/'/g, "\\'"): a backslash before each quote
RECURSIVE escapeForShellBackslash(_)
escapeForShellBackslash(str) ==
  IF str = <<>> THEN <<>>
  ELSE (IF Head(str) = "'" THEN <<"\\", "'">> ELSE <<Head(str)>>)
         \o escapeForShellBackslash(Tail(str))

\* str.replace(/'/g, "'\\''")
RECURSIVE escapeForShell(_)
escapeForShell(str) ==
  IF str = <<>> THEN <<>>
  ELSE (IF Head(str) = "'" THEN <<"'", "\\", "'", "'">> ELSE <<Head(str)>>)
         \o escapeForShell(Tail(str))

\* The gh api command lines postReply builds
NoCmd == [endpoint |-> "none", pr |-> 0, commentId |-> <<>>, body |-> <<>>]

ThreadReplyCmd(pr, commentId, body) ==
  [endpoint |-> "pulls/comments/replies", pr |-> pr, commentId |-> commentId,
   body |-> escapeForShell(body.s)]

ConversationCmd(pr, body) ==
  [endpoint |-> "issues/comments", pr |-> pr, commentId |-> <<>>,
   body |-> escapeForShell(body.s)]

\* postReply: escapeForShell(body) calls body.replace, which only strings have
PostReplyThrows(reply) == reply.body.t # "string"

\* postReply: the command, conversation kinds addressed by identifier
PostReplyCmdWithId(pr, reply) ==
  IF reply.type \in {"inline", "inline-reply"}
    THEN ThreadReplyCmd(pr, ReplaceFirstMarker(IdToString(reply.id)), reply.body)
  ELSE IF reply.type \in {"conversation", "review-body"}
    THEN [ConversationCmd(pr, reply.body) EXCEPT !.commentId = IdToString(reply.id)]
  ELSE ThreadReplyCmd(pr, IdToString(reply.id), reply.body)

\* postReply: the command
PostReplyCmd(pr, reply) ==
  IF reply.type \in {"inline", "inline-reply"}
    THEN ThreadReplyCmd(pr, ReplaceFirstMarker(IdToString(reply.id)), reply.body)
  ELSE IF reply.type \in {"conversation", "review-body"}
    THEN ConversationCmd(pr, reply.body)
  ELSE ThreadReplyCmd(pr, IdToString(reply.id), reply.body)

\* postReply: the description
PostReplyDescription(reply) ==
  IF reply.type \in {"inline", "inline-reply"}
    THEN [text |-> "Reply to inline comment #", type |-> NoType,
          id |-> ReplaceFirstMarker(IdToString(reply.id))]
  ELSE IF reply.type \in {"conversation", "review-body"}
    THEN [text |-> "New conversation comment (re: #)", type |-> reply.type,
          id |-> IdToString(reply.id)]
  ELSE [text |-> "Reply to comment #", type |-> NoType,
        id |-> IdToString(reply.id)]

\* What execSync of a gh api write can end in: output that is JSON, output
\* that is not, or an error with its stderr
RemoteErrors == {"HTTP 404", "HTTP 422"}

ExecOutcomes ==
  {[error |-> FALSE, json |-> TRUE, stderr |-> ""],
   [error |-> FALSE, json |-> FALSE, stderr |-> ""]}
    \cup {[error |-> TRUE, json |-> FALSE, stderr |-> e] : e \in RemoteErrors}

\* postReply: the value returned
DryRunResult(reply, cmd) ==
  [success |-> TRUE, dryRun |-> TRUE, description |-> PostReplyDescription(reply),
   cmd |-> cmd, error |-> "", response |-> "none"]

ExecResult(reply, cmd, outcome) ==
  IF outcome.error
    THEN [success |-> FALSE, dryRun |-> FALSE,
          description |-> PostReplyDescription(reply), cmd |-> cmd,
          error |-> outcome.stderr, response |-> "none"]
    ELSE [success |-> TRUE, dryRun |-> FALSE,
          description |-> PostReplyDescription(reply), cmd |-> NoCmd,
          error |-> "", response |-> IF outcome.json THEN "url" ELSE "raw"]

\* main: results.success.push / results.failed.push; index stands for the
\* identity of the object `reply`, which is replies[index]
EmptyResults == [success |-> <<>>, failed |-> <<>>]

PushResult(res, index, reply, r) ==
  IF r.success
    THEN [res EXCEPT !.success = Append(@, [index |-> index, reply |-> reply,
                                            result |-> r])]
    ELSE [res EXCEPT !.failed = Append(@, [index |-> index, reply |-> reply,
                                           error |-> r.error])]

PushMissing(res, index, reply) ==
  [res EXCEPT !.failed = Append(@, [index |-> index, reply |-> reply,
                                    error |-> "Missing id or body"])]

\* What is observed of a run besides the primary output
WriteEvent(index, cmd) == [ev |-> "write", index |-> index, cmd |-> cmd, ms |-> 0]

SleepEvent(ms) == [ev |-> "sleep", index |-> 0, cmd |-> NoCmd, ms |-> ms]

StderrEvent(what) == [ev |-> what, index |-> 0, cmd |-> NoCmd, ms |-> 0]

\* parseArgs: the defaults
DefaultDelay == 100

NoBranch == ""

DefaultArgs ==
  [dryRun |-> FALSE, pr |-> 0, branch |-> NoBranch, delay |-> DefaultDelay]

\* The dispatcher before it is started
DispatcherIdle ==
  /\ dpc = "idle"
  /\ args = DefaultArgs
  /\ env = [repoOk |-> TRUE, branchPr |-> 0, currentPr |-> 0]
  /\ input = [shape |-> "unparseable", items |-> <<>>]
  /\ prNumber = 0
  /\ repliesArr = <<>>
  /\ loopI = 0
  /\ results = EmptyResults
  /\ pending = NoCmd
  /\ log = <<>>
  /\ exitCode = -1
  /\ dstdout = <<>>

----------------------------------------------------------------------------
\* main(): the four reads, buildHierarchy, the output

AggregatorInit ==
  /\ pc = "fetchPrOverview"
  /\ reviews = <<>>
  /\ reviewComments = <<>>
  /\ issueComments = <<>>
  /\ allReviewComments = EmptyObject
  /\ topLevelComments = <<>>
  /\ result = EmptyResult
  /\ stdout = <<>>

Init ==
  /\ AggregatorInit
  /\ DispatcherIdle

FetchPrOverview ==
  /\ pc = "fetchPrOverview"
  /\ pc' = "fetchReviews"
  /\ UNCHANGED dispVars
  /\ UNCHANGED <<reviews, reviewComments, issueComments, allReviewComments,
                 topLevelComments, result, stdout>>

\* A page sequence may deliver the same item more than once; the copies of
\* one id are the same record.
FetchReviews ==
  /\ pc = "fetchReviews"
  /\ \E n \in 0..MaxItems : \E ids \in [1..n -> ReviewIds] :
       \E attr \in [{ids[i] : i \in 1..n} -> ReviewAttrs] :
         reviews' = [i \in 1..n |-> RawReview(ids[i], attr[ids[i]])]
  /\ pc' = "fetchReviewComments"
  /\ UNCHANGED dispVars
  /\ UNCHANGED <<reviewComments, issueComments, allReviewComments,
                 topLevelComments, result, stdout>>

\* A reply is created after the comment it answers, so its id is greater.
FetchReviewComments ==
  /\ pc = "fetchReviewComments"
  /\ \E n \in 0..(MaxItems - Len(reviews)) : \E ids \in [1..n -> CommentIds] :
       \E attr \in [{ids[i] : i \in 1..n} -> CommentAttrs] :
         /\ \A c \in DOMAIN attr : attr[c].in_reply_to_id < c
         /\ reviewComments' = [i \in 1..n |-> RawComment(ids[i], attr[ids[i]])]
  /\ pc' = "fetchIssueComments"
  /\ UNCHANGED dispVars
  /\ UNCHANGED <<reviews, issueComments, allReviewComments,
                 topLevelComments, result, stdout>>

FetchIssueComments ==
  /\ pc = "fetchIssueComments"
  /\ \E n \in 0..(MaxItems - Len(reviews) - Len(reviewComments)) :
       \E ids \in [1..n -> IssueIds] :
         \E attr \in [{ids[i] : i \in 1..n} -> IssueAttrs] :
           issueComments' = [i \in 1..n |-> RawIssueComment(ids[i], attr[ids[i]])]
  /\ pc' = "firstPass"
  /\ UNCHANGED dispVars
  /\ UNCHANGED <<reviews, reviewComments, allReviewComments,
                 topLevelComments, result, stdout>>

\* exec / execJson throw, and the (still empty) model is written all the same
FetchFailsStillWrites ==
  /\ pc \in {"fetchPrOverview", "fetchReviews", "fetchReviewComments",
             "fetchIssueComments"}
  /\ pc' = "aborted"
  /\ stdout' = Append(stdout, result)
  /\ UNCHANGED dispVars
  /\ UNCHANGED <<reviews, reviewComments, issueComments, allReviewComments,
                 topLevelComments, result>>

\* exec / execJson throw: main() ends without building or writing anything
FetchFails ==
  /\ pc \in {"fetchPrOverview", "fetchReviews", "fetchReviewComments",
             "fetchIssueComments"}
  /\ pc' = "aborted"
  /\ UNCHANGED dispVars
  /\ UNCHANGED <<reviews, reviewComments, issueComments, allReviewComments,
                 topLevelComments, result, stdout>>

FirstPass ==
  /\ pc = "firstPass"
  /\ LET r == IndexComments(reviewComments, EmptyObject, <<>>)
     IN /\ allReviewComments' = r.index
        /\ topLevelComments' = r.top
  /\ pc' = "secondPass"
  /\ UNCHANGED dispVars
  /\ UNCHANGED <<reviews, reviewComments, issueComments, result, stdout>>

SecondPass ==
  /\ pc = "secondPass"
  /\ LET r == BuildReplyChains(reviewComments, allReviewComments, 0)
     IN /\ allReviewComments' = r.index
        /\ result' = [result EXCEPT !.stats.totalReplies = r.totalReplies]
  /\ pc' = "buildReviews"
  /\ UNCHANGED dispVars
  /\ UNCHANGED <<reviews, reviewComments, issueComments, topLevelComments, stdout>>

ReviewsLoop ==
  /\ pc = "buildReviews"
  /\ result' = BuildReviews(reviews, result)
  /\ pc' = "assignComments"
  /\ UNCHANGED dispVars
  /\ UNCHANGED <<reviews, reviewComments, issueComments, allReviewComments,
                 topLevelComments, stdout>>

TopLevelLoop ==
  /\ pc = "assignComments"
  /\ result' = AssignComments(topLevelComments, allReviewComments, result)
  /\ pc' = "addIssueComments"
  /\ UNCHANGED dispVars
  /\ UNCHANGED <<reviews, reviewComments, issueComments, allReviewComments,
                 topLevelComments, stdout>>

IssueLoop ==
  /\ pc = "addIssueComments"
  /\ result' = AddIssueComments(issueComments, result)
  /\ pc' = "sort"
  /\ UNCHANGED dispVars
  /\ UNCHANGED <<reviews, reviewComments, issueComments, allReviewComments,
                 topLevelComments, stdout>>

SortStep ==
  /\ pc = "sort"
  /\ result' = SortAndCount(result)
  /\ pc' = "output"
  /\ UNCHANGED dispVars
  /\ UNCHANGED <<reviews, reviewComments, issueComments, allReviewComments,
                 topLevelComments, stdout>>

\* console.log of the built result
Output ==
  /\ pc = "output"
  /\ stdout' = Append(stdout, result)
  /\ pc' = "done"
  /\ UNCHANGED dispVars
  /\ UNCHANGED <<reviews, reviewComments, issueComments, allReviewComments,
                 topLevelComments, result>>

Next ==
  \/ FetchPrOverview
  \/ FetchReviews
  \/ FetchReviewComments
  \/ FetchIssueComments
  \/ FetchFails
  \/ FirstPass
  \/ SecondPass
  \/ ReviewsLoop
  \/ TopLevelLoop
  \/ IssueLoop
  \/ SortStep
  \/ Output

Spec == Init /\ [][Next]_vars

----------------------------------------------------------------------------
\* Reply dispatcher: main()

\* The runs of the dispatcher explored: --pr given, --dry-run or not, the
\* default delay, and every input of at most MaxReplies elements (or an input
\* that is not an array, or cannot be read)
DispatchArgs ==
  {[DefaultArgs EXCEPT !.dryRun = d, !.pr = 1] : d \in BOOLEAN}

Inputs ==
  {[shape |-> "unparseable", items |-> <<>>],
   [shape |-> "notArray", items |-> <<>>]}
    \cup {[shape |-> "array", items |-> items] :
            items \in UNION {[1..n -> Elements] : n \in 0..MaxReplies}}

DispatchInit ==
  /\ AggregatorInit
  /\ dpc = "start"
  /\ args \in DispatchArgs
  /\ env = [repoOk |-> TRUE, branchPr |-> 0, currentPr |-> 0]
  /\ input \in Inputs
  /\ prNumber = 0
  /\ repliesArr = <<>>
  /\ loopI = 0
  /\ results = EmptyResults
  /\ pending = NoCmd
  /\ log = <<>>
  /\ exitCode = -1
  /\ dstdout = <<>>

\* getCurrentRepo, then the PR number: --pr, else the PR of --branch, else
\* the PR of the current branch; none found is exit 1
ResolveTarget ==
  /\ dpc = "start"
  /\ LET viaBranch == IF args.pr = 0 /\ args.branch # NoBranch
                        THEN env.branchPr ELSE args.pr
         resolved == IF viaBranch = 0 THEN env.currentPr ELSE viaBranch
     IN IF ~env.repoOk
          THEN /\ dpc' = "fatal"
               /\ UNCHANGED <<prNumber, exitCode>>
          ELSE /\ prNumber' = resolved
               /\ dpc' = IF resolved = 0 THEN "exited" ELSE "readInput"
               /\ exitCode' = IF resolved = 0 THEN 1 ELSE exitCode
  /\ UNCHANGED aggVars
  /\ UNCHANGED <<args, env, input, repliesArr, loopI, results, pending, log, dstdout>>

\* readInput without the Array.isArray check: what is not an array is
\* taken for an empty one
ReadInputUnchecked ==
  /\ dpc = "readInput"
  /\ IF input.shape = "unparseable"
       THEN /\ dpc' = "exited"
            /\ exitCode' = 1
            /\ UNCHANGED <<repliesArr, loopI>>
       ELSE IF Len(input.items) = 0
         THEN /\ dpc' = "exited"
              /\ exitCode' = 0
              /\ repliesArr' = input.items
              /\ UNCHANGED loopI
         ELSE /\ dpc' = "loop"
              /\ repliesArr' = input.items
              /\ loopI' = 1
              /\ UNCHANGED exitCode
  /\ UNCHANGED aggVars
  /\ UNCHANGED <<args, env, input, prNumber, results, pending, log, dstdout>>

\* readInput and the checks of its result: exit 1 when it cannot be read or
\* is not an array, exit 0 when it is empty, else the loop starts
ReadInput ==
  /\ dpc = "readInput"
  /\ IF input.shape # "array"
       THEN /\ dpc' = "exited"
            /\ exitCode' = 1
            /\ UNCHANGED <<repliesArr, loopI>>
       ELSE IF Len(input.items) = 0
         THEN /\ dpc' = "exited"
              /\ exitCode' = 0
              /\ repliesArr' = input.items
              /\ UNCHANGED loopI
         ELSE /\ dpc' = "loop"
              /\ repliesArr' = input.items
              /\ loopI' = 1
              /\ UNCHANGED exitCode
  /\ UNCHANGED aggVars
  /\ UNCHANGED <<args, env, input, prNumber, results, pending, log, dstdout>>

\* Loop body on null: reading reply.id throws a TypeError out of main
ElementThrows ==
  /\ dpc = "loop"
  /\ loopI <= Len(repliesArr)
  /\ repliesArr[loopI].kind = "null"
  /\ dpc' = "fatal"
  /\ UNCHANGED aggVars
  /\ UNCHANGED <<args, env, input, prNumber, repliesArr, loopI, results, pending, log,
                 exitCode, dstdout>>

\* Loop body, validation: a falsy id or body is recorded as failed, and
\* `continue` goes to the next element
SkipInvalid ==
  /\ dpc = "loop"
  /\ loopI <= Len(repliesArr)
  /\ repliesArr[loopI].kind # "null"
  /\ ~IdTruthy(repliesArr[loopI].id) \/ ~BodyTruthy(repliesArr[loopI].body)
  /\ results' = PushMissing(results, loopI, repliesArr[loopI])
  /\ loopI' = loopI + 1
  /\ UNCHANGED aggVars
  /\ UNCHANGED <<dpc, args, env, input, prNumber, repliesArr, pending, log,
                 exitCode, dstdout>>

\* Loop body on a valid element: the type defaults to 'inline', postReply
\* builds the command (or throws), and returns at once under --dry-run or
\* else starts the write
Dispatch ==
  /\ dpc = "loop"
  /\ loopI <= Len(repliesArr)
  /\ repliesArr[loopI].kind # "null"
  /\ IdTruthy(repliesArr[loopI].id) /\ BodyTruthy(repliesArr[loopI].body)
  /\ LET reply == IF TypeTruthy(repliesArr[loopI].type) THEN repliesArr[loopI]
                  ELSE [repliesArr[loopI] EXCEPT !.type = "inline"]
         cmd == PostReplyCmd(prNumber, reply)
     IN /\ repliesArr' = [repliesArr EXCEPT ![loopI] = reply]
        /\ IF PostReplyThrows(reply)
             THEN /\ dpc' = "fatal"
                  /\ UNCHANGED <<results, pending, log>>
             ELSE IF args.dryRun
               THEN /\ results' = PushResult(results, loopI, reply, DryRunResult(reply, cmd))
                    /\ dpc' = "delay"
                    /\ UNCHANGED <<pending, log>>
               ELSE /\ pending' = cmd
                    /\ log' = Append(log, WriteEvent(loopI, cmd))
                    /\ dpc' = "exec"
                    /\ UNCHANGED results
  /\ UNCHANGED aggVars
  /\ UNCHANGED <<args, env, input, prNumber, loopI, exitCode, dstdout>>

\* exec returns and the loop goes on without recording the outcome
ExecReturnsUnrecorded ==
  /\ dpc = "exec"
  /\ pending' = NoCmd
  /\ dpc' = "delay"
  /\ UNCHANGED aggVars
  /\ UNCHANGED <<args, env, input, prNumber, repliesArr, loopI, results, log,
                 exitCode, dstdout>>

\* exec returns (it catches what execSync throws), postReply returns, and
\* the loop body records the outcome
ExecReturns ==
  /\ dpc = "exec"
  /\ \E outcome \in ExecOutcomes :
       results' = PushResult(results, loopI, repliesArr[loopI],
                             ExecResult(repliesArr[loopI], pending, outcome))
  /\ pending' = NoCmd
  /\ dpc' = "delay"
  /\ UNCHANGED aggVars
  /\ UNCHANGED <<args, env, input, prNumber, repliesArr, loopI, log, exitCode, dstdout>>

\* End of the loop body, sleeping the default delay whatever --delay says
DelayIgnoresOption ==
  /\ dpc = "delay"
  /\ log' = IF loopI < Len(repliesArr) /\ ~args.dryRun
              THEN Append(log, SleepEvent(DefaultDelay)) ELSE log
  /\ loopI' = loopI + 1
  /\ dpc' = "loop"
  /\ UNCHANGED aggVars
  /\ UNCHANGED <<args, env, input, prNumber, repliesArr, results, pending,
                 exitCode, dstdout>>

\* End of the loop body: sleep unless this was the last element or --dry-run
Delay ==
  /\ dpc = "delay"
  /\ log' = IF loopI < Len(repliesArr) /\ ~args.dryRun
              THEN Append(log, SleepEvent(args.delay)) ELSE log
  /\ loopI' = loopI + 1
  /\ dpc' = "loop"
  /\ UNCHANGED aggVars
  /\ UNCHANGED <<args, env, input, prNumber, repliesArr, results, pending,
                 exitCode, dstdout>>

\* After the loop: the summary on stderr, the results on stdout, the exit
Summary ==
  /\ dpc = "loop"
  /\ loopI > Len(repliesArr)
  /\ log' = Append(log, StderrEvent("summary"))
  /\ dstdout' = Append(dstdout, results)
  /\ exitCode' = IF Len(results.failed) > 0 THEN 1 ELSE 0
  /\ dpc' = "exited"
  /\ UNCHANGED aggVars
  /\ UNCHANGED <<args, env, input, prNumber, repliesArr, loopI, results, pending>>

\* main().catch: 'Fatal error' on stderr, exit 1
FatalHandler ==
  /\ dpc = "fatal"
  /\ log' = Append(log, StderrEvent("fatal"))
  /\ exitCode' = 1
  /\ dpc' = "exited"
  /\ UNCHANGED aggVars
  /\ UNCHANGED <<args, env, input, prNumber, repliesArr, loopI, results, pending,
                 dstdout>>

DispatchNext ==
  \/ ResolveTarget
  \/ ReadInput
  \/ ElementThrows
  \/ SkipInvalid
  \/ Dispatch
  \/ ExecReturns
  \/ Delay
  \/ Summary
  \/ FatalHandler

SpecDispatch == DispatchInit /\ [][DispatchNext]_vars

----------------------------------------------------------------------------
\* Reply dispatcher: the runs that vary the options

\* parseArgs: --dry-run or not, --pr given (1) or not, --branch given or
\* not, --delay given (250) or not
OptionArgs ==
  [dryRun : BOOLEAN, pr : {0, 1}, branch : {NoBranch, "b"},
   delay : {DefaultDelay, 250}]

\* getCurrentRepo fails or not; getPrNumberForBranch and getCurrentPrNumber
\* find a PR (2, 3) or return null (0)
OptionEnvs == [repoOk : BOOLEAN, branchPr : {0, 2}, currentPr : {0, 3}]

\* A few elements: with and without id, with and without type, null, and a
\* body that is not a string
FewElements ==
  [kind : {"object"}, id : {NoId, NumberId(1)}, body : {StringBody(<<"a">>)},
   type : {NoType, "conversation"}]
    \cup {NullElement,
          [kind |-> "object", id |-> NumberId(1), body |-> NonStringBody,
           type |-> NoType]}

FewInputs ==
  {[shape |-> "unparseable", items |-> <<>>],
   [shape |-> "notArray", items |-> <<>>]}
    \cup {[shape |-> "array", items |-> items] :
            items \in UNION {[1..n -> FewElements] : n \in 0..MaxPacedReplies}}

OptionsInit ==
  /\ AggregatorInit
  /\ dpc = "start"
  /\ args \in OptionArgs
  /\ env \in OptionEnvs
  /\ input \in FewInputs
  /\ prNumber = 0
  /\ repliesArr = <<>>
  /\ loopI = 0
  /\ results = EmptyResults
  /\ pending = NoCmd
  /\ log = <<>>
  /\ exitCode = -1
  /\ dstdout = <<>>

SpecOptions == OptionsInit /\ [][DispatchNext]_vars

----------------------------------------------------------------------------
\* Reply dispatcher: the runs that vary the characters of the body

\* Characters the shell treats differently: an ordinary one, the single
\* quote, the backslash, the blank
EscapeChars == {"a", "'", "\\", " "}

EscapeBodies ==
  {NonStringBody}
    \cup {StringBody(b) : b \in UNION {[1..n -> EscapeChars] : n \in 0..MaxEscapeLen}}

EscapeElements ==
  [kind : {"object"}, id : {NumberId(1)}, body : EscapeBodies,
   type : {NoType, "conversation"}]
    \cup {NullElement}

EscapeInit ==
  /\ AggregatorInit
  /\ dpc = "start"
  /\ args \in DispatchArgs
  /\ env = [repoOk |-> TRUE, branchPr |-> 0, currentPr |-> 0]
  /\ input \in {[shape |-> "array", items |-> <<e>>] : e \in EscapeElements}
  /\ prNumber = 0
  /\ repliesArr = <<>>
  /\ loopI = 0
  /\ results = EmptyResults
  /\ pending = NoCmd
  /\ log = <<>>
  /\ exitCode = -1
  /\ dstdout = <<>>

SpecEscape == EscapeInit /\ [][DispatchNext]_vars

----------------------------------------------------------------------------
\* Closing the loop: the aggregator's output answered through the dispatcher

\* The id of an allComments entry as it reads in the JSON output: a number,
\* or the string 'review-body-N'
EntryIdAsReplyId(id) ==
  IF id.prefix = "" THEN NumberId(id.num)
  ELSE StringId(<<id.prefix, ToString(id.num)>>)

\* The reply request that answers an allComments entry with the entry's own
\* id and type
ReplyToEntry(entry) ==
  [kind |-> "object", id |-> EntryIdAsReplyId(entry.id),
   body |-> StringBody(<<"a">>), type |-> entry.type]

\* The dispatcher is started on a reply to one 'inline-reply' entry of the
\* output written
HandBack ==
  /\ pc = "done"
  /\ dpc = "idle"
  /\ \E k \in DOMAIN stdout[1].allComments :
       /\ stdout[1].allComments[k].type = "inline-reply"
       /\ input' = [shape |-> "array",
                    items |-> <<ReplyToEntry(stdout[1].allComments[k])>>]
  /\ args' \in DispatchArgs
  /\ dpc' = "start"
  /\ UNCHANGED aggVars
  /\ UNCHANGED <<env, prNumber, repliesArr, loopI, results, pending, log,
                 exitCode, dstdout>>

\* The aggregator, then the dispatcher on a reply to one of its entries.
\* Such a reply is an object with a truthy id and a string body, so the
\* steps of the dispatcher for other elements cannot happen here.
LoopNext ==
  \/ Next
  \/ HandBack
  \/ ResolveTarget
  \/ ReadInput
  \/ Dispatch
  \/ ExecReturns
  \/ Delay
  \/ Summary

SpecLoop == Init /\ [][LoopNext]_vars

----------------------------------------------------------------------------
\* Vocabulary of the properties

Range(s) == {s[i] : i \in DOMAIN s}

\* buildHierarchy has returned
Built == pc \in {"output", "done"}

Flat == result.allComments

FetchedCommentIds == {reviewComments[i].id : i \in DOMAIN reviewComments}

FetchedReviewIds == {reviews[i].id : i \in DOMAIN reviews}

\* The fetched record of an inline comment id (copies of one id are equal).
FetchedComment(id) ==
  CHOOSE c \in Range(reviewComments) : c.id = id

HasParentRef(c) == c.in_reply_to_id # 0

ParentFetched(c) == c.in_reply_to_id \in FetchedCommentIds

\* A body has text left after trimming iff it holds a non-whitespace character.
NonEmptyTrimmed(body) ==
  /\ ~body.isNull
  /\ \E k \in DOMAIN body.text : ~IsWhitespace(body.text[k])

\* The top-level comment a reply chain leads to; 0 when the chain leaves
\* the fetched comments.
RECURSIVE ThreadRoot(_)
ThreadRoot(id) ==
  LET c == FetchedComment(id)
  IN IF ~HasParentRef(c) THEN id
     ELSE IF ~ParentFetched(c) THEN 0
     ELSE ThreadRoot(c.in_reply_to_id)

\* Positions of the flat list that hold an inline entry (top-level or reply)
\* of comment id.
InlinePositions(id) ==
  {k \in DOMAIN Flat :
     /\ Flat[k].type \in {"inline", "inline-reply"}
     /\ Flat[k].id = NativeId(id)}

\* The fetched collection an entry comes from.
SourceKind(e) ==
  CASE e.type = "review-body" -> "review"
    [] e.type \in {"inline", "inline-reply"} -> "inline"
    [] e.type = "conversation" -> "issue"

\* main() reads the reviews first, then the inline comments, then the
\* issue comments.
SourceRank(e) ==
  CASE e.type = "review-body" -> 1
    [] e.type \in {"inline", "inline-reply"} -> 2
    [] e.type = "conversation" -> 3

\* Indexes at which the source item of an entry occurs in its collection.
SourceIndexes(e) ==
  CASE e.type = "review-body" ->
         {i \in DOMAIN reviews : reviews[i].id = e.id.num}
    [] e.type \in {"inline", "inline-reply"} ->
         {i \in DOMAIN reviewComments : reviewComments[i].id = e.id.num}
    [] e.type = "conversation" ->
         {i \in DOMAIN issueComments : issueComments[i].id = e.id.num}

\* e1's source item was fetched no later than e2's.
FetchedNoLater(e1, e2) ==
  \/ SourceRank(e1) < SourceRank(e2)
  \/ /\ SourceRank(e1) = SourceRank(e2)
     /\ \E i \in SourceIndexes(e1), j \in SourceIndexes(e2) : i <= j

----------------------------------------------------------------------------
\* C1: Completeness.  The length of allComments equals the number of fetched
\* reviews whose trimmed body is non-empty, plus the fetched inline comments
\* without in_reply_to_id, plus the fetched inline comments whose
\* in_reply_to_id is the id of a fetched inline comment, plus the number of
\* fetched issue comments; for every parent structure.
C1_Completeness ==
  Built =>
    Len(Flat) =
        Cardinality({i \in DOMAIN reviews : NonEmptyTrimmed(reviews[i].body)})
      + Cardinality({i \in DOMAIN reviewComments :
                       ~HasParentRef(reviewComments[i])})
      + Cardinality({i \in DOMAIN reviewComments :
                       /\ HasParentRef(reviewComments[i])
                       /\ ParentFetched(reviewComments[i])})
      + Len(issueComments)

\* C2: An inline comment whose in_reply_to_id names an id that was not
\* fetched still appears exactly once in allComments, marked as a reply.
C2_DanglingReplySurfaces ==
  Built =>
    \A c \in Range(reviewComments) :
      (HasParentRef(c) /\ ~ParentFetched(c)) =>
        /\ Cardinality(InlinePositions(c.id)) = 1
        /\ \A k \in InlinePositions(c.id) : Flat[k].isReply

\* C3: Verification statistic.  totalReviewBodies + totalReviewComments +
\* totalReplies + totalIssueComments equals the length of allComments, which
\* is the value of totalAllComments.
C3_StatsSum ==
  Built =>
    /\ result.stats.totalAllComments = Len(Flat)
    /\ result.stats.totalReviewBodies + result.stats.totalReviewComments
         + result.stats.totalReplies + result.stats.totalIssueComments
       = Len(Flat)

\* C4: Threading correctness.  A fetched inline comment whose parent
\* reference is the id of a fetched inline comment is stored in the replies
\* of the parent's entry, is a key of no review's comments map nor of
\* orphanedComments, and has no allComments entry of type 'inline'.
C4_ThreadingCorrect ==
  Built =>
    \A c \in Range(reviewComments) :
      (HasParentRef(c) /\ ParentFetched(c)) =>
        /\ c.id \in allReviewComments[c.in_reply_to_id].replies
        /\ \A r \in DOMAIN result.reviews : c.id \notin result.reviews[r].comments
        /\ c.id \notin result.orphanedComments
        /\ \A k \in DOMAIN Flat :
             ~(Flat[k].type = "inline" /\ Flat[k].id = NativeId(c.id))

\* C4 witness: a reply to a fetched top-level comment and a reply to that
\* reply have been threaded.
C4_Witness ==
  /\ Built
  /\ \E c, d \in Range(reviewComments) :
       /\ HasParentRef(c) /\ ParentFetched(c)
       /\ d.in_reply_to_id = c.id
       /\ d.id \in allReviewComments[c.id].replies

\* C5: Reply collapsing.  Every reply of a thread, a reply to a reply
\* included, has an allComments entry, and each entry it has is of type
\* 'inline-reply' with the id of the thread's top-level root as parentId
\* and as replyApi target.
C5_ReplyCollapsing ==
  Built =>
    \A c \in Range(reviewComments) :
      (HasParentRef(c) /\ ThreadRoot(c.id) # 0) =>
        /\ InlinePositions(c.id) # {}
        /\ \A k \in InlinePositions(c.id) :
             /\ Flat[k].type = "inline-reply"
             /\ Flat[k].parentId = ThreadRoot(c.id)
             /\ Flat[k].replyApi = ThreadReplyApi(ThreadRoot(c.id))

\* C6: Exactly-once by identity.  No two allComments entries denote the same
\* source entity (same kind of source, same remote id), also when a raw
\* collection delivers one identity more than once.
C6_ExactlyOnce ==
  Built =>
    \A i, j \in DOMAIN Flat :
      i < j =>
        ~(/\ SourceKind(Flat[i]) = SourceKind(Flat[j])
          /\ Flat[i].id.num = Flat[j].id.num)

C8_Stable ==
  Built =>
    \A i, j \in DOMAIN Flat :
      (i < j /\ Flat[i].createdAt = Flat[j].createdAt) =>
        FetchedNoLater(Flat[i], Flat[j])

\* C9: Unique home and orphans.  A fetched inline comment without parent
\* reference is a key of the comments map of the review its
\* pull_request_review_id names, and of nothing else, when that review was
\* fetched; it is a key of orphanedComments, and of no review's comments map,
\* otherwise; either way it has an allComments entry of type 'inline'.
C9_UniqueHome ==
  Built =>
    \A c \in Range(reviewComments) :
      ~HasParentRef(c) =>
        LET owner == c.pull_request_review_id
            InReview(r) == c.id \in result.reviews[r].comments
        IN /\ IF owner \in FetchedReviewIds
              THEN /\ InReview(owner)
                   /\ \A r \in DOMAIN result.reviews \ {owner} : ~InReview(r)
                   /\ c.id \notin result.orphanedComments
              ELSE /\ c.id \in result.orphanedComments
                   /\ \A r \in DOMAIN result.reviews : ~InReview(r)
           /\ \E k \in DOMAIN Flat :
                Flat[k].type = "inline" /\ Flat[k].id = NativeId(c.id)

\* C9 witness: one top-level comment sits in its fetched review while
\* another, whose review was not fetched, is an orphan.
C9_Witness ==
  /\ Built
  /\ result.orphanedComments # {}
  /\ \E c \in Range(reviewComments) :
       /\ ~HasParentRef(c)
       /\ c.pull_request_review_id \in FetchedReviewIds
       /\ c.id \in result.reviews[c.pull_request_review_id].comments
  /\ \E c \in Range(reviewComments) :
       /\ c.pull_request_review_id \notin FetchedReviewIds \cup {0}
       /\ c.id \in result.orphanedComments

\* C10: Review bodies.  Each fetched review contributes one allComments
\* entry, with id 'review-body-<review id>' and type 'review-body', if and
\* only if its body is non-empty after trimming; every fetched review is in
\* the reviews map and counted in totalReviews whatever its body.
C10_ReviewBodies ==
  Built =>
    /\ \A r \in Range(reviews) :
         LET fetches == {i \in DOMAIN reviews : reviews[i].id = r.id}
             entries == {k \in DOMAIN Flat : Flat[k].id = SyntheticId(r.id)}
         IN /\ Cardinality(entries) =
                 (IF NonEmptyTrimmed(r.body) THEN Cardinality(fetches) ELSE 0)
            /\ \A k \in entries : Flat[k].type = "review-body"
            /\ r.id \in DOMAIN result.reviews
    /\ \A k \in DOMAIN Flat :
         Flat[k].type = "review-body" =>
           Flat[k].id \in {SyntheticId(id) : id \in FetchedReviewIds}
    /\ result.stats.totalReviews = Len(reviews)

\* C10 witness: of two fetched reviews, one with surrounding whitespace in
\* its body has an entry and one with a whitespace-only body has none.
C10_Witness ==
  /\ Built
  /\ \E r, q \in Range(reviews) :
       /\ r.body = Text(<<" ", "a">>)
       /\ \E k \in DOMAIN Flat : Flat[k].id = SyntheticId(r.id)
       /\ q.body = Text(<<" ">>)
       /\ ~\E k \in DOMAIN Flat : Flat[k].id = SyntheticId(q.id)

----------------------------------------------------------------------------
\* C11: while one of the four reads is still to come, and after a read has
\* failed (thrown, or returned what JSON.parse rejects), nothing of the
\* model has been built and nothing has been written to the primary output:
\* the model is built and written only after the four reads have succeeded
C11_AbortWritesNothing ==
  pc \in {"fetchPrOverview", "fetchReviews", "fetchReviewComments",
          "fetchIssueComments", "aborted"}
    => /\ stdout = <<>>
       /\ result = EmptyResult
       /\ allReviewComments = EmptyObject

\* The last read fails after the first three have delivered items
C11_Witness ==
  /\ pc = "aborted"
  /\ reviews # <<>>
  /\ reviewComments # <<>>
  /\ stdout = <<>>

\* C13: buildHierarchy on empty collections: with no review and no inline
\* comment fetched and k issue comments fetched (k = 0 included), the built
\* result has totalReviews = 0, totalReviewComments = 0, totalReplies = 0 and
\* totalAllComments = k, and allComments lists the k issue comments
C13_EmptySources ==
  (Built /\ reviews = <<>> /\ reviewComments = <<>>)
    => /\ result.stats.totalReviews = 0
       /\ result.stats.totalReviewComments = 0
       /\ result.stats.totalReplies = 0
       /\ result.stats.totalAllComments = Len(issueComments)
       /\ Len(result.allComments) = Len(issueComments)
       /\ \A k \in DOMAIN result.allComments :
            result.allComments[k].type = "conversation"

\* Zero reviews, zero inline comments and three issue comments, built and
\* written
C13_Witness ==
  /\ pc = "done"
  /\ reviews = <<>>
  /\ reviewComments = <<>>
  /\ Len(issueComments) = 3
  /\ result.stats.totalAllComments = 3

----------------------------------------------------------------------------
\* Vocabulary of the dispatcher's properties

\* The requests as they were read
Requests == input.items

\* The dispatch loop has been entered; the process has ended
LoopStarted == loopI > 0

Exited == dpc = "exited"

\* The positions of the requests recorded in one of the two collections
SuccessIndexes == {results.success[k].index : k \in DOMAIN results.success}

FailedIndexes == {results.failed[k].index : k \in DOMAIN results.failed}

\* The commands sent to the remote system, and those previewed by --dry-run
Written ==
  {[index |-> log[k].index, cmd |-> log[k].cmd] :
     k \in {n \in DOMAIN log : log[n].ev = "write"}}

Previewed ==
  {[index |-> results.success[k].index, cmd |-> results.success[k].result.cmd] :
     k \in {n \in DOMAIN results.success : results.success[n].result.dryRun}}

Commands == Written \cup Previewed

\* C14: when the dispatcher has run its loop on N requests and has ended,
\* results.success and results.failed hold N outcomes together, every request
\* is in exactly one of the two, and each collection is in input order
C14_DispatchComplete ==
  (Exited /\ LoopStarted)
    => /\ Len(results.success) + Len(results.failed) = Len(Requests)
       /\ SuccessIndexes \cup FailedIndexes = DOMAIN Requests
       /\ SuccessIndexes \cap FailedIndexes = {}
       /\ \A k, n \in DOMAIN results.success :
            k < n => results.success[k].index < results.success[n].index
       /\ \A k, n \in DOMAIN results.failed :
            k < n => results.failed[k].index < results.failed[n].index

\* The code's validation of an element: it has a truthy id and a truthy body
PassesValidation(e) ==
  e.kind # "null" /\ IdTruthy(e.id) /\ BodyTruthy(e.body)

\* C15: when the dispatcher has ended, every request whose remote write
\* failed is in results.failed with the error the remote system gave, and
\* every later request that passes validation has been written too
C15_FailureIsolation ==
  (Exited /\ LoopStarted)
    => \A w \in Written :
         w.index \notin SuccessIndexes
           => /\ \E k \in DOMAIN results.failed :
                   /\ results.failed[k].index = w.index
                   /\ results.failed[k].error \in RemoteErrors
              /\ \A j \in DOMAIN Requests :
                   (j > w.index /\ PassesValidation(Requests[j]))
                     => \E v \in Written : v.index = j

\* What the run has written to stderr
StderrMarks == {log[k].ev : k \in DOMAIN log} \ {"write", "sleep"}

\* C16: once the loop has started, the run ends only after the last element
\* and the summary, with the results written, whatever the elements are:
\* there is no fatal abort
C16_RunToCompletion ==
  (Exited /\ LoopStarted)
    => /\ loopI = Len(Requests) + 1
       /\ "summary" \in StderrMarks
       /\ "fatal" \notin StderrMarks
       /\ dstdout # <<>>

\* A request (element of the input) whose id or body is absent
MissingIdOrBody(e) == e.id.t = "undefined" \/ e.body.t = "undefined"

StripPrefix(s) ==
  IF s # <<>> /\ Head(s) = ReviewBodyMarker THEN Tail(s) ELSE s

\* C18: every command for a request of kind 'inline' or 'inline-reply'
\* targets repos/{repo}/pulls/{pr}/comments/{id}/replies, {id} being the
\* request identifier without its 'review-body-' prefix if it has one, and
\* the identifier unchanged otherwise
C18_InlineRouting ==
  \A c \in Commands :
    Requests[c.index].type \in {"inline", "inline-reply"}
      => /\ c.cmd.endpoint = "pulls/comments/replies"
         /\ c.cmd.pr = prNumber
         /\ c.cmd.commentId = StripPrefix(IdToString(Requests[c.index].id))

\* The requests of kind 'conversation' or 'review-body'
ConversationKind(j) == Requests[j].type \in {"conversation", "review-body"}

\* C19: every command for a request of kind 'conversation' or 'review-body'
\* targets repos/{repo}/issues/{pr}/comments and carries no identifier; the
\* identifier is in the description only, and two such requests with the
\* same body produce the same command
C19_ConversationRouting ==
  /\ \A c \in Commands :
       ConversationKind(c.index)
         => /\ c.cmd.endpoint = "issues/comments"
            /\ c.cmd.pr = prNumber
            /\ c.cmd.commentId = <<>>
  /\ \A c, d \in Commands :
       (/\ ConversationKind(c.index)
        /\ ConversationKind(d.index)
        /\ Requests[c.index].body = Requests[d.index].body)
         => c.cmd = d.cmd
  /\ \A k \in DOMAIN results.success :
       ConversationKind(results.success[k].index)
         => results.success[k].result.description.id
              = IdToString(Requests[results.success[k].index].id)

\* Two requests of these kinds with one body and two identifiers have both
\* been written, with one and the same command
C19_Witness ==
  /\ Exited
  /\ Len(Requests) = 2
  /\ ConversationKind(1)
  /\ ConversationKind(2)
  /\ Requests[1].body = Requests[2].body
  /\ IdToString(Requests[1].id) # IdToString(Requests[2].id)
  /\ \E c, d \in Written : c.index = 1 /\ d.index = 2 /\ c.cmd = d.cmd

\* C20: every command for a request whose kind is absent or is none of the
\* four kinds is the command an 'inline' request with the same identifier
\* and body gets
C20_DefaultRouting ==
  \A c \in Commands :
    Requests[c.index].type
        \notin {"inline", "inline-reply", "conversation", "review-body"}
      => c.cmd = PostReplyCmd(prNumber, [Requests[c.index] EXCEPT !.type = "inline"])

----------------------------------------------------------------------------
\* C21: when the dispatcher is given the id and type of an 'inline-reply'
\* entry of allComments, its command targets the thread-reply endpoint of
\* the thread root, the endpoint the entry's replyApi names
C21_LoopClosure ==
  \A c \in Commands : \A k \in DOMAIN Flat :
    (/\ Flat[k].type = "inline-reply"
     /\ Requests[c.index] = ReplyToEntry(Flat[k]))
      => /\ c.cmd.endpoint = Flat[k].replyApi.endpoint
         /\ c.cmd.commentId = <<ToString(Flat[k].replyApi.commentId)>>

----------------------------------------------------------------------------
\* The positions in the log of the remote writes
WritePositions == {n \in DOMAIN log : log[n].ev = "write"}

\* The writes started whose outcome is not yet recorded
InFlight == {w \in Written : w.index \notin SuccessIndexes \cup FailedIndexes}

\* C22: at most one remote write is in flight, it is the write of the
\* request the loop is at; a write is started only when every earlier request
\* has its outcome recorded; writes are started in input order, one per
\* request at most
C22_Sequential ==
  /\ Cardinality(InFlight) <= 1
  /\ \A w \in InFlight :
       dpc = "exec" /\ w.index = loopI /\ w.cmd = pending
  /\ \A w \in Written : \A j \in 1..(w.index - 1) :
       j \in SuccessIndexes \cup FailedIndexes
  /\ \A k, n \in WritePositions : k < n => log[k].index < log[n].index

\* The write of the second request is in flight after the write of the
\* first has failed and been recorded
C22_Witness ==
  /\ dpc = "exec"
  /\ loopI = 2
  /\ Cardinality(Written) = 2
  /\ FailedIndexes = {1}
  /\ InFlight # {}

\* The positions in the log of the delays
SleepPositions == {n \in DOMAIN log : log[n].ev = "sleep"}

\* C23: without --dry-run, between the remote writes of any two requests
\* there is a delay of the length args.delay (the default when --delay is not
\* given), and every delay has that length; under --dry-run there is no
\* delay
C23_Pacing ==
  /\ ~args.dryRun
       => /\ \A k, n \in WritePositions :
               k < n => \E d \in SleepPositions :
                          k < d /\ d < n /\ log[d].ms = args.delay
          /\ \A d \in SleepPositions : log[d].ms = args.delay
  /\ args.dryRun => SleepPositions = {}

\* --delay 250: a write, a skipped request, a second write, with one delay
\* of 250 between the two writes
C23_Witness ==
  /\ Exited
  /\ ~args.dryRun
  /\ args.delay = 250
  /\ Len(Requests) = 3
  /\ 2 \in FailedIndexes
  /\ {w.index : w \in Written} = {1, 3}
  /\ \E d \in SleepPositions : log[d].ms = 250

\* C24: when the dispatcher has ended, every delay it performed was followed
\* by the remote write of a later request: there is no delay after the last
\* request sent
C24_NoTrailingDelay ==
  Exited
    => \A d \in SleepPositions : \E w \in WritePositions : d < w

\* The request the loop hands to postReply: the type defaults to 'inline'
Defaulted(e) == IF TypeTruthy(e.type) THEN e ELSE [e EXCEPT !.type = "inline"]

\* C25: under --dry-run no remote write is issued, and when the dispatcher
\* has ended every request that passes validation has a success outcome
\* marked dry-run, with the description and the command of a real run
C25_DryRun ==
  args.dryRun
    => /\ Written = {}
       /\ (Exited /\ LoopStarted)
            => \A j \in DOMAIN Requests :
                 PassesValidation(Requests[j])
                   => \E k \in DOMAIN results.success :
                        /\ results.success[k].index = j
                        /\ results.success[k].result.dryRun
                        /\ results.success[k].result.cmd
                             = PostReplyCmd(prNumber, Defaulted(Requests[j]))
                        /\ results.success[k].result.description
                             = PostReplyDescription(Defaulted(Requests[j]))

\* C26: a run that has entered the dispatch loop exits with a non-zero
\* status if results.failed is not empty, and with status 0 if it is empty
C26_ExitStatus ==
  (Exited /\ LoopStarted)
    => /\ results.failed # <<>> => exitCode # 0
       /\ results.failed = <<>> => exitCode = 0

\* C27: a run whose input is an array of N >= 0 requests, once it has read
\* the input, ends with exactly one result object on the primary output,
\* the results of the run
C27_ResultEmitted ==
  (Exited /\ prNumber # 0 /\ input.shape = "array")
    => dstdout = <<results>>

\* C28: when the input cannot be read or parsed, or is not an array, the
\* run never enters the loop, issues no write and writes no result object,
\* and it ends with a non-zero status
C28_InputShapeError ==
  input.shape # "array"
    => /\ ~LoopStarted
       /\ results = EmptyResults
       /\ Commands = {}
       /\ log = <<>> \/ log = <<StderrEvent("fatal")>>
       /\ dstdout = <<>>
       /\ Exited => exitCode # 0

\* The target is resolved, the input is JSON but not an array, and the run
\* has ended with status 1
C28_Witness ==
  /\ Exited
  /\ input.shape = "notArray"
  /\ prNumber # 0
  /\ exitCode = 1
  /\ log = <<>>

----------------------------------------------------------------------------
\* The words a POSIX shell makes of a piece of command line: between single
\* quotes every character stands for itself, outside them a backslash makes
\* the next character stand for itself, a blank ends the word, and quoted
\* and unquoted pieces that touch are one word.  A quote left open makes no
\* command line at all.
RECURSIVE ShellWords(_, _, _, _)
ShellWords(s, quoted, word, started) ==
  IF s = <<>>
    THEN IF quoted THEN <<<<"<open quote>">>>>
         ELSE IF started THEN <<word>> ELSE <<>>
  ELSE IF quoted
    THEN IF Head(s) = "'"
           THEN ShellWords(Tail(s), FALSE, word, TRUE)
           ELSE ShellWords(Tail(s), TRUE, Append(word, Head(s)), TRUE)
  ELSE IF Head(s) = "'"
    THEN ShellWords(Tail(s), TRUE, word, TRUE)
  ELSE IF Head(s) = "\\"
    THEN IF Tail(s) = <<>>
           THEN ShellWords(<<>>, FALSE, Append(word, "\\"), TRUE)
           ELSE ShellWords(Tail(Tail(s)), FALSE, Append(word, Head(Tail(s))), TRUE)
  ELSE IF Head(s) = " "
    THEN (IF started THEN <<word>> ELSE <<>>)
           \o ShellWords(Tail(s), FALSE, <<>>, FALSE)
  ELSE ShellWords(Tail(s), FALSE, Append(word, Head(s)), TRUE)

\* The payload of a command as it stands on the command line: '...'
QuotedPayload(cmd) == <<"'">> \o cmd.body \o <<"'">>

\* C29: the shell reads the quoted payload of every command as one word,
\* and the word is the body of the request
C29_QuoteRoundTrip ==
  \A c \in Commands :
    ShellWords(QuotedPayload(c.cmd), FALSE, <<>>, FALSE)
      = <<Requests[c.index].body.s>>

\* A body with a quote, a backslash and a blank has been sent
C29_Witness ==
  \E c \in Written :
    /\ Requests[c.index].body.s = <<"'", "\\", " ">>
    /\ c.cmd.body = <<"'", "\\", "'", "'", "\\", " ">>

----------------------------------------------------------------------------
\* The pull request the options select: the number of --pr; without --pr,
\* the PR of the branch of --branch; without both, the PR of the current
\* branch (0: there is none)
SelectedPr ==
  IF args.pr # 0 THEN args.pr
  ELSE IF args.branch # NoBranch THEN env.branchPr
  ELSE env.currentPr

\* C30: every command, sent or previewed, addresses the pull request the
\* options select
C30_TargetPr ==
  \A c \in Commands : c.cmd.pr = SelectedPr

====
